---------------------------- MODULE Spec2Model ----------------------------
(***************************************************************************)
(* TechnicalIndicators (src/database/metrics.py): thirteen static          *)
(* functions from price/volume series to indicator series.                 *)
(*                                                                         *)
(* Numbers.  The code computes in IEEE doubles; the model computes in      *)
(* exact arithmetic, and for williams_r in doubles, over values [k, v]:    *)
(*   k = "num"  : the rational v = [n, d] (d > 0, lowest terms)            *)
(*   k = "nan"  : not-a-number, the marker pandas writes where a window    *)
(*                is not full                                              *)
(*   k = "inf"  : +infinity (v = 1) or -infinity (v = -1)                  *)
(*   k = "eps"  : (a + b*EPS) / (c + e*EPS), v = [a, b, c, e] rationals,   *)
(*                EPS the literal 1e-10 of the code                        *)
(*   k = "sqrt" : the square root of the rational v                        *)
(*   k = "surd" : a + b*sqrt(r), v = [a, b, r]                             *)
(*   k = "cci"  : a / (0.015*sqrt(r) + EPS), v = [a, r]                    *)
(*   k = "mean" : the mean of the values in the sequence v                 *)
(*   k = "f64"  : the double v = [s, m, e], s * m * 2^e, for williams_r,   *)
(*                which the model computes in doubles, rounding as the     *)
(*                code does                                                *)
(* Every rational of the model has numerator and denominator far below     *)
(* 1e10, so a + b*EPS is zero only if a = b = 0 and has the sign of a, or  *)
(* of b when a = 0.                                                        *)
(*                                                                         *)
(* Series are sequences, 1-based: index i of the model is index i-1 of     *)
(* the code.                                                               *)
(***************************************************************************)
EXTENDS Integers, Sequences, FiniteSets

VARIABLES pc, op, args, outcome, out

vars == <<pc, op, args, outcome, out>>

(***************************************************************************)
(* Bounds of the model.                                                    *)
(***************************************************************************)
MaxLen == 4
MaxPrice == 2
MaxSpan == 3
MaxBars == 4
MaxAlignedBars == 3
MaxMult == 2
MaxVolume == 2
MaxTick == 31

(***************************************************************************)
(* Exact rationals.                                                        *)
(***************************************************************************)
Abs(x) == IF x < 0 THEN -x ELSE x

RECURSIVE GCD(_, _)
GCD(a, b) == IF b = 0 THEN a ELSE GCD(b, a % b)

Rat(n, d) ==
    LET g == GCD(Abs(n), Abs(d))
        s == IF d < 0 THEN -1 ELSE 1
    IN  [n |-> (s * n) \div g, d |-> Abs(d) \div g]

R(i) == [n |-> i, d |-> 1]

\* Sums over the least common denominator and products reduced crosswise,
\* so that no intermediate number outgrows the result.
RAdd(x, y) ==
    LET g == GCD(x.d, y.d)
    IN  Rat(x.n * (y.d \div g) + y.n * (x.d \div g), (x.d \div g) * y.d)
RNeg(x) == [n |-> -x.n, d |-> x.d]
RSub(x, y) == RAdd(x, RNeg(y))
RMul(x, y) ==
    LET g1 == GCD(Abs(x.n), y.d)
        g2 == GCD(Abs(y.n), x.d)
    IN  IF x.n = 0 \/ y.n = 0 THEN R(0)
        ELSE [n |-> (x.n \div g1) * (y.n \div g2),
              d |-> (x.d \div g2) * (y.d \div g1)]
RInv(y) == IF y.n < 0 THEN [n |-> -y.d, d |-> -y.n] ELSE [n |-> y.d, d |-> y.n]
RDiv(x, y) == RMul(x, RInv(y))
RLt(x, y) == x.n * y.d < y.n * x.d
RMax(x, y) == IF RLt(x, y) THEN y ELSE x
RMin(x, y) == IF RLt(y, x) THEN y ELSE x
RAbs(x) == [n |-> Abs(x.n), d |-> x.d]

(***************************************************************************)
(* Float values.                                                           *)
(***************************************************************************)
NaN == [k |-> "nan", v |-> R(0)]
Inf(s) == [k |-> "inf", v |-> R(s)]
Num(r) == [k |-> "num", v |-> r]
IsNaN(x) == x.k = "nan"
IsNum(x) == x.k = "num"

\* x / y in IEEE arithmetic, x and y rationals: a zero divisor gives nan or
\* a signed infinity and no exception (numpy warns and goes on).
FDiv(x, y) ==
    IF y.n # 0 THEN Num(RDiv(x, y))
    ELSE IF x.n = 0 THEN NaN
    ELSE IF x.n > 0 THEN Inf(1) ELSE Inf(-1)

(***************************************************************************)
(* Natural numbers of any size, for the 53-bit significands of doubles and *)
(* their exact sums and quotients: a sequence of limbs of LimbBits bits,   *)
(* least significant first, no zero limb at the top; <<>> is 0.            *)
(***************************************************************************)
LimbBits == 24
LimbBase == 2^LimbBits

Limb(a, i) == IF i <= Len(a) THEN a[i] ELSE 0

RECURSIVE BigTrim(_)
BigTrim(a) ==
    IF a = <<>> THEN a
    ELSE IF a[Len(a)] = 0 THEN BigTrim(SubSeq(a, 1, Len(a) - 1))
    ELSE a

BigOfNat(n) == BigTrim(<<n % LimbBase, n \div LimbBase>>)

RECURSIVE BigAddFrom(_, _, _, _)
BigAddFrom(a, b, i, carry) ==
    IF i > Len(a) /\ i > Len(b)
    THEN IF carry = 0 THEN <<>> ELSE <<carry>>
    ELSE LET t == Limb(a, i) + Limb(b, i) + carry
         IN  <<t % LimbBase>> \o BigAddFrom(a, b, i + 1, t \div LimbBase)
BigAdd(a, b) == BigAddFrom(a, b, 1, 0)

\* a - b for a >= b.
RECURSIVE BigSubFrom(_, _, _, _)
BigSubFrom(a, b, i, borrow) ==
    IF i > Len(a) THEN <<>>
    ELSE LET t == a[i] - Limb(b, i) - borrow
         IN  IF t < 0 THEN <<t + LimbBase>> \o BigSubFrom(a, b, i + 1, 1)
             ELSE <<t>> \o BigSubFrom(a, b, i + 1, 0)
BigSub(a, b) == BigTrim(BigSubFrom(a, b, 1, 0))

\* -1, 0 or 1 as a < b, a = b or a > b.
RECURSIVE BigCmpFrom(_, _, _)
BigCmpFrom(a, b, i) ==
    IF i = 0 THEN 0
    ELSE IF a[i] < b[i] THEN -1
    ELSE IF a[i] > b[i] THEN 1
    ELSE BigCmpFrom(a, b, i - 1)
BigCmp(a, b) ==
    IF Len(a) < Len(b) THEN -1
    ELSE IF Len(a) > Len(b) THEN 1
    ELSE BigCmpFrom(a, b, Len(a))

\* a * k for 0 <= k < 128.
RECURSIVE BigTimesFrom(_, _, _, _)
BigTimesFrom(a, k, i, carry) ==
    IF i > Len(a) THEN IF carry = 0 THEN <<>> ELSE <<carry>>
    ELSE LET t == a[i] * k + carry
         IN  <<t % LimbBase>> \o BigTimesFrom(a, k, i + 1, t \div LimbBase)
BigTimes(a, k) == BigTrim(BigTimesFrom(a, k, 1, 0))

RECURSIVE Bits(_)
Bits(n) == IF n = 0 THEN 0 ELSE 1 + Bits(n \div 2)
BigBits(a) ==
    IF a = <<>> THEN 0 ELSE LimbBits * (Len(a) - 1) + Bits(a[Len(a)])
BigOdd(a) == a # <<>> /\ a[1] % 2 = 1

\* a * 2^k, floor(a / 2^k) and a mod 2^k.
RECURSIVE ShlBits(_, _, _, _)
ShlBits(a, r, i, carry) ==
    IF i > Len(a) THEN IF carry = 0 THEN <<>> ELSE <<carry>>
    ELSE <<(a[i] % 2^(LimbBits - r)) * 2^r + carry>>
         \o ShlBits(a, r, i + 1, a[i] \div 2^(LimbBits - r))
BigShl(a, k) ==
    IF a = <<>> THEN a
    ELSE [j \in 1..(k \div LimbBits) |-> 0] \o ShlBits(a, k % LimbBits, 1, 0)
BigShr(a, k) ==
    LET d == SubSeq(a, k \div LimbBits + 1, Len(a))
        r == k % LimbBits
    IN  BigTrim([i \in 1..Len(d) |->
                    d[i] \div 2^r + (Limb(d, i + 1) % 2^r) * 2^(LimbBits - r)])
BigLow(a, k) ==
    LET q == k \div LimbBits
    IN  IF q >= Len(a) THEN a
        ELSE BigTrim(SubSeq(a, 1, q) \o <<a[q + 1] % 2^(k % LimbBits)>>)

\* 2 * floor(r * 16^n / d), plus 1 if the division leaves a remainder: long
\* division for r < d, one digit of DigitBits bits at a time.
DigitBits == 4
RECURSIVE BigDivide(_, _, _)
BigDivide(r, d, n) ==
    IF n = 0 THEN IF r = <<>> THEN <<>> ELSE <<1>>
    ELSE LET shifted == BigShl(r, DigitBits)
             digit == Cardinality({k \in 1..(2^DigitBits - 1) :
                                      BigCmp(BigTimes(d, k), shifted) <= 0})
         IN  BigAdd(BigShl(BigOfNat(digit), DigitBits * (n - 1) + 1),
                    BigDivide(BigSub(shifted, BigTimes(d, digit)), d, n - 1))

(***************************************************************************)
(* IEEE doubles (numpy float64), for the arithmetic whose rounding a claim *)
(* depends on: [k |-> "f64", v |-> [s, m, e]] is s * m * 2^e with sign s   *)
(* in {-1, 0, 1} and a significand m of MantissaBits bits (m = <<>>,       *)
(* e = 0 for zero; -0.0 is not told from 0.0).  Every operation rounds     *)
(* its exact result to the nearest double, ties to the even significand.   *)
(* The exponents of the model stay far inside the doubles' range: no       *)
(* overflow, no subnormals.                                                *)
(***************************************************************************)
MantissaBits == 53

F64(s, m, e) == [k |-> "f64", v |-> [s |-> s, m |-> m, e |-> e]]
Zero64 == F64(0, <<>>, 0)

\* The double nearest to s * n * 2^e, n a natural number of any size.
Round64(s, n, e) ==
    LET bits == BigBits(n)
        drop == bits - MantissaBits
        q == BigShr(n, drop)
        c == BigCmp(BigLow(n, drop), BigShl(<<1>>, drop - 1))
        up == BigAdd(q, <<1>>)
    IN  IF n = <<>> THEN Zero64
        ELSE IF drop <= 0 THEN F64(s, BigShl(n, -drop), e + drop)
        ELSE IF c < 0 \/ (c = 0 /\ ~BigOdd(q)) THEN F64(s, q, e + drop)
        ELSE IF BigBits(up) > MantissaBits THEN F64(s, BigShr(up, 1), e + drop + 1)
        ELSE F64(s, up, e + drop)

\* x + y: nan if either is nan.
F64Add(x, y) ==
    IF IsNaN(x) \/ IsNaN(y) THEN NaN
    ELSE IF x.v.s = 0 THEN y
    ELSE IF y.v.s = 0 THEN x
    ELSE LET e == IF x.v.e < y.v.e THEN x.v.e ELSE y.v.e
             a == BigShl(x.v.m, x.v.e - e)
             b == BigShl(y.v.m, y.v.e - e)
             c == BigCmp(a, b)
         IN  IF x.v.s = y.v.s THEN Round64(x.v.s, BigAdd(a, b), e)
             ELSE IF c = 0 THEN Zero64
             ELSE IF c > 0 THEN Round64(x.v.s, BigSub(a, b), e)
             ELSE Round64(y.v.s, BigSub(b, a), e)

F64Neg(x) == IF IsNaN(x) THEN NaN ELSE F64(-x.v.s, x.v.m, x.v.e)
F64Sub(x, y) == F64Add(x, F64Neg(y))

\* k * x for an integer k, 0 < |k| < 128.
F64Times(k, x) ==
    IF IsNaN(x) THEN NaN
    ELSE Round64(IF k < 0 THEN -x.v.s ELSE x.v.s, BigTimes(x.v.m, Abs(k)), x.v.e)

\* x / y: a zero divisor gives nan or a signed infinity and no exception.
F64Div(x, y) ==
    IF IsNaN(x) \/ IsNaN(y) THEN NaN
    ELSE IF y.v.s = 0
         THEN IF x.v.s = 0 THEN NaN ELSE Inf(x.v.s)
    ELSE IF x.v.s = 0 THEN Zero64
    ELSE LET first == BigCmp(x.v.m, y.v.m) >= 0
             digits == (MantissaBits + 3) \div DigitBits
             rest == BigDivide(IF first THEN BigSub(x.v.m, y.v.m) ELSE x.v.m,
                               y.v.m, digits)
             q == IF first THEN BigAdd(BigShl(<<1>>, DigitBits * digits + 1), rest)
                  ELSE rest
         IN  Round64(x.v.s * y.v.s, q, x.v.e - y.v.e - DigitBits * digits - 1)

\* x < y for doubles x and y.
F64Less(x, y) ==
    LET mag(u, v) ==
            IF u.e # v.e THEN u.e < v.e ELSE BigCmp(u.m, v.m) < 0
    IN  IF x.v.s # y.v.s THEN x.v.s < y.v.s
        ELSE IF x.v.s = 0 THEN FALSE
        ELSE IF x.v.s > 0 THEN mag(x.v, y.v)
        ELSE mag(y.v, x.v)

\* The literal 1e-10 as a double: 0x1.b7cdfd9d7bdbbp-34.
Eps64 == F64(1, <<14138811, 8183769, 27>>, -86)

\* A price of a series given in doubles is [w, f], the double
\* w + f / 2^TickBits, for naturals w < 2^23 and f < 2^TickBits.
TickBits == 30
Price64(p) ==
    Round64(1, BigAdd(BigShl(BigOfNat(p.w), TickBits), BigOfNat(p.f)), -TickBits)
Arr64(data) == [i \in 1..Len(data) |-> Price64(data[i])]

\* A result: the outcome of the call and the series it returns.
Ok(series) == [outcome |-> "ok", out |-> series]
Raise(e) == [outcome |-> e, out |-> <<>>]

\* np.array(data): the integers of the input as numbers, order and count kept.
Arr(data) == [i \in 1..Len(data) |-> R(data[i])]

RECURSIVE SumR(_, _, _)
SumR(s, lo, hi) == IF lo > hi THEN R(0) ELSE RAdd(s[lo], SumR(s, lo + 1, hi))

(***************************************************************************)
(* pandas rolling(window=period): the window of index i is the period      *)
(* samples s[i-period+1..i]; min_periods defaults to the window, so an     *)
(* index with fewer samples is nan.  A negative window raises ValueError;  *)
(* window 0 is accepted and every window is empty.                         *)
(***************************************************************************)
WindowOk(period) == period >= 0
Full(i, period) == period >= 1 /\ i >= period

\* As if rolling(window=period, min_periods=1): a short window is averaged.
RollingMeanOfPartialWindows(s, period) ==
    [i \in 1..Len(s) |->
        IF period >= 1
        THEN LET lo == IF i >= period THEN i - period + 1 ELSE 1
             IN  Num(RDiv(SumR(s, lo, i), R(i - lo + 1)))
        ELSE NaN]

\* As if the window ended before the current sample: s[i-period..i-1].
RollingMeanOfPreviousWindow(s, period) ==
    [i \in 1..Len(s) |->
        IF period >= 1 /\ i > period
        THEN Num(RDiv(SumR(s, i - period, i - 1), R(period)))
        ELSE NaN]

RollingMean(s, period) ==
    [i \in 1..Len(s) |->
        IF Full(i, period)
        THEN Num(RDiv(SumR(s, i - period + 1, i), R(period)))
        ELSE NaN]

(***************************************************************************)
(* pandas ewm(span=period, adjust=False).mean(): alpha = 2/(span+1),       *)
(* y[0] = x[0], y[i] = (1-alpha)*y[i-1] + alpha*x[i].  span < 1 raises     *)
(* ValueError.                                                             *)
(***************************************************************************)
SpanOk(span) == span >= 1
\* As if span were Wilder's smoothing period: alpha = 1/span.
AlphaWilder(span) == Rat(1, span)
Alpha(span) == Rat(2, span + 1)

RECURSIVE EwmAt(_, _, _)
EwmAt(s, span, i) ==
    IF i = 1 THEN s[1]
    ELSE RAdd(RMul(RSub(R(1), Alpha(span)), EwmAt(s, span, i - 1)),
              RMul(Alpha(span), s[i]))

EwmMean(s, span) == [i \in 1..Len(s) |-> EwmAt(s, span, i)]

NumSeries(s) == [i \in 1..Len(s) |-> Num(s[i])]

(***************************************************************************)
(* Values with the guard EPS = 1e-10 in them: (a + b*EPS) / (c + e*EPS),   *)
(* kept exact.  This is the arithmetic of rsi and of the stochastic %K;    *)
(* williams_r, whose range depends on how the quotient rounds, is computed *)
(* in doubles instead.                                                     *)
(***************************************************************************)
Eps(a, b, c, e) == [k |-> "eps", v |-> [a |-> a, b |-> b, c |-> c, e |-> e]]

\* x / (y + 1e-10) for values x and y: nan if either is nan.
EpsDiv(x, y) ==
    IF IsNaN(x) \/ IsNaN(y) THEN NaN ELSE Eps(x.v, R(0), y.v, R(1))

\* r + x, r / x and r - x for a rational r and an eps value x.
EpsAddTo(r, x) ==
    IF IsNaN(x) THEN NaN
    ELSE Eps(RAdd(x.v.a, RMul(r, x.v.c)), RAdd(x.v.b, RMul(r, x.v.e)),
             x.v.c, x.v.e)

EpsDivInto(r, x) ==
    IF IsNaN(x) THEN NaN
    ELSE Eps(RMul(r, x.v.c), RMul(r, x.v.e), x.v.a, x.v.b)

EpsSubFrom(r, x) ==
    IF IsNaN(x) THEN NaN
    ELSE Eps(RSub(RMul(r, x.v.c), x.v.a), RSub(RMul(r, x.v.e), x.v.b),
             x.v.c, x.v.e)

(***************************************************************************)
(* pandas rolling(window=period).std(): the sample standard deviation      *)
(* (ddof = 1) of the window; nan where the window is not full and where it *)
(* holds a single sample.                                                  *)
(***************************************************************************)
RECURSIVE SumSqDev(_, _, _, _)
SumSqDev(s, m, lo, hi) ==
    IF lo > hi THEN R(0)
    ELSE RAdd(RMul(RSub(s[lo], m), RSub(s[lo], m)), SumSqDev(s, m, lo + 1, hi))

Sqrt(r) == [k |-> "sqrt", v |-> r]

\* As if ddof = 0: the population variance of the window.
RollingVarPopulation(s, period, i) ==
    LET m == RDiv(SumR(s, i - period + 1, i), R(period))
    IN  RDiv(SumSqDev(s, m, i - period + 1, i), R(period))

RollingVar(s, period, i) ==
    LET m == RDiv(SumR(s, i - period + 1, i), R(period))
    IN  RDiv(SumSqDev(s, m, i - period + 1, i), R(period - 1))

\* As if the deviation of a single sample were 0 (ddof = 0 when the window
\* holds one sample), so that it is defined wherever the mean is.
RollingStdOfOneSampleZero(s, period) ==
    [i \in 1..Len(s) |->
        IF Full(i, period)
        THEN Sqrt(IF period = 1 THEN R(0) ELSE RollingVar(s, period, i))
        ELSE NaN]

RollingStd(s, period) ==
    [i \in 1..Len(s) |->
        IF Full(i, period) /\ period >= 2
        THEN Sqrt(RollingVar(s, period, i))
        ELSE NaN]

\* m + b*sd for a mean m, a standard deviation sd and a rational b.
Surd(a, b, r) == [k |-> "surd", v |-> [a |-> a, b |-> b, r |-> r]]
Band(m, sd, b) ==
    IF IsNaN(m) \/ IsNaN(sd) THEN NaN ELSE Surd(m.v, b, sd.v)

\* x * 100 in IEEE arithmetic.
Times100(x) == IF IsNum(x) THEN Num(RMul(x.v, R(100))) ELSE x

\* np.diff(data): the first differences, one fewer than the samples.
Diff(s) == [i \in 1..(IF Len(s) = 0 THEN 0 ELSE Len(s) - 1) |-> RSub(s[i + 1], s[i])]

(***************************************************************************)
(* The indicators.                                                         *)
(***************************************************************************)
sma(data, period) ==
    IF ~WindowOk(period) THEN Raise("ValueError")
    ELSE Ok(<<RollingMean(Arr(data), period)>>)

ema(data, period) ==
    IF ~SpanOk(period) THEN Raise("ValueError")
    ELSE Ok(<<NumSeries(EwmMean(Arr(data), period))>>)

\* As if the losses kept their sign (delta for -delta).
rsiOfSignedLosses(data, period) ==
    LET delta == Diff(Arr(data))
        gain == [i \in 1..Len(delta) |-> IF delta[i].n > 0 THEN delta[i] ELSE R(0)]
        loss == [i \in 1..Len(delta) |->
                    IF delta[i].n < 0 THEN delta[i] ELSE R(0)]
        avg_gain == RollingMean(gain, period)
        avg_loss == RollingMean(loss, period)
        rs == [i \in 1..Len(delta) |-> EpsDiv(avg_gain[i], avg_loss[i])]
    IN  IF ~WindowOk(period) THEN Raise("ValueError")
        ELSE Ok(<<[i \in 1..Len(delta) |->
                    EpsSubFrom(R(100), EpsDivInto(R(100), EpsAddTo(R(1), rs[i])))]>>)

rsi(data, period) ==
    LET delta == Diff(Arr(data))
        gain == [i \in 1..Len(delta) |-> IF delta[i].n > 0 THEN delta[i] ELSE R(0)]
        loss == [i \in 1..Len(delta) |->
                    IF delta[i].n < 0 THEN RNeg(delta[i]) ELSE R(0)]
        avg_gain == RollingMean(gain, period)
        avg_loss == RollingMean(loss, period)
        rs == [i \in 1..Len(delta) |-> EpsDiv(avg_gain[i], avg_loss[i])]
    IN  IF ~WindowOk(period) THEN Raise("ValueError")
        ELSE Ok(<<[i \in 1..Len(delta) |->
                    EpsSubFrom(R(100), EpsDivInto(R(100), EpsAddTo(R(1), rs[i])))]>>)

\* As if the signal line smoothed the prices instead of the MACD line.
macdSignalOfPrices(data, fast, slow, signal) ==
    LET ema_fast == EwmMean(Arr(data), fast)
        ema_slow == EwmMean(Arr(data), slow)
        macd_line == [i \in 1..Len(data) |-> RSub(ema_fast[i], ema_slow[i])]
        signal_line == EwmMean(Arr(data), signal)
        histogram == [i \in 1..Len(data) |-> RSub(macd_line[i], signal_line[i])]
    IN  IF ~SpanOk(fast) \/ ~SpanOk(slow) \/ ~SpanOk(signal)
        THEN Raise("ValueError")
        ELSE Ok(<<NumSeries(macd_line), NumSeries(signal_line),
                  NumSeries(histogram)>>)

macd(data, fast, slow, signal) ==
    LET ema_fast == EwmMean(Arr(data), fast)
        ema_slow == EwmMean(Arr(data), slow)
        macd_line == [i \in 1..Len(data) |-> RSub(ema_fast[i], ema_slow[i])]
        signal_line == EwmMean(macd_line, signal)
        histogram == [i \in 1..Len(data) |-> RSub(macd_line[i], signal_line[i])]
    IN  IF ~SpanOk(fast) \/ ~SpanOk(slow) \/ ~SpanOk(signal)
        THEN Raise("ValueError")
        ELSE Ok(<<NumSeries(macd_line), NumSeries(signal_line),
                  NumSeries(histogram)>>)

bollinger_bands(data, period, std_dev) ==
    LET series == Arr(data)
        middle_band == RollingMean(series, period)
        std == RollingStd(series, period)
        upper_band == [i \in 1..Len(series) |->
                          Band(middle_band[i], std[i], R(std_dev))]
        lower_band == [i \in 1..Len(series) |->
                          Band(middle_band[i], std[i], R(-std_dev))]
    IN  IF ~WindowOk(period) THEN Raise("ValueError")
        ELSE Ok(<<upper_band, middle_band, lower_band>>)

\* range(period, len(data)) with period < 0 starts at a negative index and
\* ends reading data[len(data) - 1 - period], past the end: IndexError.
roc(data, period) ==
    LET d == Arr(data)
    IN  IF period < 0 THEN Raise("IndexError")
        ELSE Ok(<<[i \in 1..Len(d) |->
                    IF i <= period THEN Num(R(0))
                    ELSE Times100(FDiv(RSub(d[i], d[i - period]),
                                       d[i - period]))]>>)

apo(data, fast, slow) ==
    LET ema_fast == EwmMean(Arr(data), fast)
        ema_slow == EwmMean(Arr(data), slow)
    IN  IF ~SpanOk(fast) \/ ~SpanOk(slow) THEN Raise("ValueError")
        ELSE Ok(<<[i \in 1..Len(data) |-> Num(RSub(ema_fast[i], ema_slow[i]))]>>)

(***************************************************************************)
(* numpy broadcasting of two one-dimensional arrays of lengths m and n:    *)
(* equal lengths pair index by index, a length-1 array is stretched to the *)
(* other's length, anything else raises ValueError (written -1 here).      *)
(***************************************************************************)
BLen(m, n) ==
    IF m < 0 \/ n < 0 THEN -1
    ELSE IF m = n THEN m
    ELSE IF m = 1 THEN n
    ELSE IF n = 1 THEN m
    ELSE -1

At(s, i) == IF Len(s) = 1 THEN s[1] ELSE s[i]

RECURSIVE MaxR(_, _, _)
MaxR(s, lo, hi) == IF lo = hi THEN s[lo] ELSE RMax(s[lo], MaxR(s, lo + 1, hi))

RECURSIVE MinR(_, _, _)
MinR(s, lo, hi) == IF lo = hi THEN s[lo] ELSE RMin(s[lo], MinR(s, lo + 1, hi))

\* As if rolling(window=period, min_periods=1): the largest of a short
\* window.
RollingMaxOfPartialWindows(s, period) ==
    [i \in 1..Len(s) |->
        IF period >= 1
        THEN Num(MaxR(s, IF i >= period THEN i - period + 1 ELSE 1, i))
        ELSE NaN]

RollingMax(s, period) ==
    [i \in 1..Len(s) |->
        IF Full(i, period) THEN Num(MaxR(s, i - period + 1, i)) ELSE NaN]

RollingMin(s, period) ==
    [i \in 1..Len(s) |->
        IF Full(i, period) THEN Num(MinR(s, i - period + 1, i)) ELSE NaN]

\* x - y for values x and y that are numbers or nan.
VSub(x, y) == IF IsNaN(x) \/ IsNaN(y) THEN NaN ELSE Num(RSub(x.v, y.v))
\* r * x for a rational r and a value x that is a number or nan.
VScale(r, x) == IF IsNaN(x) THEN NaN ELSE Num(RMul(r, x.v))

\* The window of the stochastic %D line.
DWindow == 3

\* rolling(window=w).mean() over values some of which are nan: nan unless
\* the window is full of numbers.
Mean(xs) == [k |-> "mean", v |-> xs]
RollingMeanOfValues(s, w) ==
    [i \in 1..Len(s) |->
        IF Full(i, w) /\ \A j \in (i - w + 1)..i : ~IsNaN(s[j])
        THEN Mean([j \in 1..w |-> s[i - w + j]])
        ELSE NaN]

stochastic(high, low, close, period) ==
    LET h == Arr(high)
        l == Arr(low)
        c == Arr(close)
        highest_high == RollingMax(h, period)
        lowest_low == RollingMin(l, period)
        n == BLen(BLen(Len(c), Len(l)), BLen(Len(h), Len(l)))
        k_line == [i \in 1..n |->
                      EpsDiv(VScale(R(100), VSub(Num(At(c, i)), At(lowest_low, i))),
                             VSub(At(highest_high, i), At(lowest_low, i)))]
        d_line == RollingMeanOfValues(k_line, DWindow)
    IN  IF ~WindowOk(period) \/ n < 0 THEN Raise("ValueError")
        ELSE Ok(<<k_line, d_line>>)

\* As if the first bar had no previous close and took its own (a shift
\* that does not wrap).
ShiftKeepingFirst(s) == [i \in 1..Len(s) |-> IF i = 1 THEN s[1] ELSE s[i - 1]]

\* np.roll(close, 1): every sample moves one place later and the last one
\* comes round to index 0.
Roll(s) == [i \in 1..Len(s) |-> IF i = 1 THEN s[Len(s)] ELSE s[i - 1]]

atr(high, low, close, period) ==
    LET h == Arr(high)
        l == Arr(low)
        prev == Roll(Arr(close))
        n == BLen(BLen(Len(h), Len(l)),
                  BLen(BLen(Len(h), Len(prev)), BLen(Len(l), Len(prev))))
        tr1 == [i \in 1..n |-> RSub(At(h, i), At(l, i))]
        tr2 == [i \in 1..n |-> RAbs(RSub(At(h, i), At(prev, i)))]
        tr3 == [i \in 1..n |-> RAbs(RSub(At(l, i), At(prev, i)))]
        tr == [i \in 1..n |-> RMax(tr1[i], RMax(tr2[i], tr3[i]))]
    IN  IF n < 0 \/ ~WindowOk(period) THEN Raise("ValueError")
        ELSE Ok(<<RollingMean(tr, period)>>)

\* As if an unchanged close counted as a rise (>= for >).
RECURSIVE ObvAtTiesRise(_, _, _)
ObvAtTiesRise(close, volume, i) ==
    IF i = 1 THEN volume[1]
    ELSE IF close[i] >= close[i - 1]
         THEN ObvAtTiesRise(close, volume, i - 1) + volume[i]
    ELSE ObvAtTiesRise(close, volume, i - 1) - volume[i]

RECURSIVE ObvAt(_, _, _)
ObvAt(close, volume, i) ==
    IF i = 1 THEN volume[1]
    ELSE IF close[i] > close[i - 1]
         THEN ObvAt(close, volume, i - 1) + volume[i]
    ELSE IF close[i] < close[i - 1]
         THEN ObvAt(close, volume, i - 1) - volume[i]
    ELSE ObvAt(close, volume, i - 1)

\* obv[0] = volume[0] needs both arrays non-empty; volume[i] is read only
\* where close[i] differs from close[i-1].
obv(close, volume) ==
    IF Len(close) = 0 \/ Len(volume) = 0 THEN Raise("IndexError")
    ELSE IF \E i \in 2..Len(close) :
                close[i] # close[i - 1] /\ i > Len(volume)
         THEN Raise("IndexError")
    ELSE Ok(<<[i \in 1..Len(close) |-> Num(R(ObvAt(close, volume, i)))]>>)

\* (high + low + close) / 3 at index i.
TypicalPrice(h, l, c, i) ==
    RDiv(RAdd(RAdd(At(h, i), At(l, i)), At(c, i)), R(3))

vwap(high, low, close, volume) ==
    LET h == Arr(high)
        l == Arr(low)
        c == Arr(close)
        v == Arr(volume)
        nt == BLen(BLen(Len(h), Len(l)), Len(c))
        np == BLen(nt, Len(v))
        n == BLen(np, Len(v))
        tpv == [i \in 1..np |-> RMul(TypicalPrice(h, l, c, i), At(v, i))]
        cum_tpv == [i \in 1..np |-> SumR(tpv, 1, i)]
        cum_v == [i \in 1..Len(v) |-> SumR(v, 1, i)]
    IN  IF n < 0 THEN Raise("ValueError")
        ELSE Ok(<<[i \in 1..n |-> FDiv(At(cum_tpv, i), At(cum_v, i))]>>)

\* The rolling maximum and minimum of a series of doubles.
RECURSIVE Max64(_, _, _)
Max64(s, lo, hi) ==
    IF lo = hi THEN s[lo]
    ELSE LET m == Max64(s, lo + 1, hi)
         IN  IF F64Less(m, s[lo]) THEN s[lo] ELSE m

RECURSIVE Min64(_, _, _)
Min64(s, lo, hi) ==
    IF lo = hi THEN s[lo]
    ELSE LET m == Min64(s, lo + 1, hi)
         IN  IF F64Less(s[lo], m) THEN s[lo] ELSE m

RollingMax64(s, period) ==
    [i \in 1..Len(s) |->
        IF Full(i, period) THEN Max64(s, i - period + 1, i) ELSE NaN]

RollingMin64(s, period) ==
    [i \in 1..Len(s) |->
        IF Full(i, period) THEN Min64(s, i - period + 1, i) ELSE NaN]

\* In doubles, operation by operation as numpy evaluates the expression:
\* (-100 * (highest_high - close)) / ((highest_high - lowest_low) + 1e-10).
williams_r(high, low, close, period) ==
    LET h == Arr64(high)
        l == Arr64(low)
        c == Arr64(close)
        highest_high == RollingMax64(h, period)
        lowest_low == RollingMin64(l, period)
        n == BLen(BLen(Len(h), Len(c)), BLen(Len(h), Len(l)))
    IN  IF ~WindowOk(period) \/ n < 0 THEN Raise("ValueError")
        ELSE Ok(<<[i \in 1..n |->
                    F64Div(F64Times(-100, F64Sub(At(highest_high, i), At(c, i))),
                           F64Add(F64Sub(At(highest_high, i), At(lowest_low, i)),
                                  Eps64))]>>)

\* a / (0.015 * sd + 1e-10) for a number a and a standard deviation sd.
CciValue(a, sd) ==
    IF IsNaN(a) \/ IsNaN(sd) THEN NaN
    ELSE [k |-> "cci", v |-> [a |-> a.v, r |-> sd.v]]

cci(high, low, close, period) ==
    LET h == Arr(high)
        l == Arr(low)
        c == Arr(close)
        n == BLen(BLen(Len(h), Len(l)), Len(c))
        typical_price == [i \in 1..n |-> TypicalPrice(h, l, c, i)]
        sma_tp == RollingMean(typical_price, period)
        std_tp == RollingStd(typical_price, period)
    IN  IF n < 0 \/ ~WindowOk(period) THEN Raise("ValueError")
        ELSE Ok(<<[i \in 1..n |->
                    CciValue(VSub(Num(typical_price[i]), sma_tp[i]),
                             std_tp[i])]>>)

(***************************************************************************)
(* Inputs.  A call is an indicator name and its arguments; the arguments   *)
(* an indicator does not take stay at their NoArgs value.                  *)
(***************************************************************************)
SeqsUpTo(S, n) == UNION {[1..m -> S] : m \in 0..n}

Prices == 0..MaxPrice
ExampleClose == <<10, 11, 12, 11, 10>>
DataSet == SeqsUpTo(Prices, MaxLen) \cup {ExampleClose}
Periods == -1..(MaxLen + 1)
Spans == 0..MaxSpan
Multipliers == 0..MaxMult

\* Bars: high, low and close series, and volumes.
BarPrices == {0, 1}
BarVolumes == {0, 1}
BarPeriods == -1..(MaxBars + 1)
Volumes == 0..MaxVolume
ExampleObvClose == <<1, 2, 3, 4, 5>>
ExampleObvVolume == <<100, 100, 100, 100, 100>>

\* Prices between whole numbers, f / 2^TickBits above a whole price of
\* FineScales, for the rounding of williams_r.
FineScales == {1, 3 * 2^21}
FinePeriods == {1, 2}

\* Series of any lengths (the code checks none), and series of one length.
RaggedBars ==
    [high : SeqsUpTo(BarPrices, MaxBars), low : SeqsUpTo(BarPrices, MaxBars),
     close : SeqsUpTo(BarPrices, MaxBars)]
AlignedBars ==
    UNION {[high : [1..n -> BarPrices], low : [1..n -> BarPrices],
            close : [1..n -> BarPrices]] : n \in 0..MaxAlignedBars}
RaggedBarVolumes == SeqsUpTo(BarVolumes, MaxBars)
NoArgs ==
    [data |-> <<>>, high |-> <<>>, low |-> <<>>, close |-> <<>>,
     volume |-> <<>>, period |-> 0, fast |-> 0, slow |-> 0, signal |-> 0,
     std_dev |-> 0]

\* A caller about to make the call name(a).
Ready(name, a) ==
    /\ pc = "call"
    /\ op = name
    /\ args = a
    /\ outcome = "none"
    /\ out = <<>>

PeriodCalls(name) ==
    \E d \in DataSet, p \in Periods :
        Ready(name, [NoArgs EXCEPT !.data = d, !.period = p])
BollingerCalls ==
    \E d \in DataSet, p \in Periods, m \in Multipliers :
        Ready("bollinger_bands",
              [NoArgs EXCEPT !.data = d, !.period = p, !.std_dev = m])
MacdCalls ==
    \E d \in DataSet, f \in Spans, s \in Spans, g \in Spans :
        Ready("macd", [NoArgs EXCEPT !.data = d, !.fast = f, !.slow = s,
                                     !.signal = g])
ApoCalls ==
    \E d \in DataSet, f \in Spans, s \in Spans :
        Ready("apo", [NoArgs EXCEPT !.data = d, !.fast = f, !.slow = s])
BarCalls(name, bars) ==
    \E b \in bars, p \in BarPeriods :
        Ready(name, [NoArgs EXCEPT !.high = b.high, !.low = b.low,
                                   !.close = b.close, !.period = p])
\* williams_r is computed in doubles and takes its prices as [w, f].
Whole(data) == [i \in 1..Len(data) |-> [w |-> data[i], f |-> 0]]
WilliamsCalls(bars) ==
    \E b \in bars, p \in BarPeriods :
        Ready("williams_r",
              [NoArgs EXCEPT !.high = Whole(b.high), !.low = Whole(b.low),
                             !.close = Whole(b.close), !.period = p])
\* One bar with a wide range and a high between two whole prices: the low
\* is 0 or the whole price under the high, the close the low or the high.
FineCalls ==
    \E b \in FineScales, k \in 0..MaxTick, atHigh \in BOOLEAN,
       p \in FinePeriods :
        \E lw \in {0, b} :
            LET hi == [w |-> b, f |-> k]
                lo == [w |-> lw, f |-> 0]
            IN  Ready("williams_r",
                      [NoArgs EXCEPT !.high = <<hi>>, !.low = <<lo>>,
                                     !.close = <<IF atHigh THEN hi ELSE lo>>,
                                     !.period = p])
VwapCalls ==
    \E b \in RaggedBars, v \in RaggedBarVolumes :
        Ready("vwap", [NoArgs EXCEPT !.high = b.high, !.low = b.low,
                                     !.close = b.close, !.volume = v])
ObvArgs(c, v) == [NoArgs EXCEPT !.close = c, !.volume = v]
ObvRaggedCalls ==
    \E c \in SeqsUpTo(Prices, MaxBars), v \in SeqsUpTo(Volumes, MaxBars) :
        Ready("obv", ObvArgs(c, v))
ObvAlignedCalls ==
    \E n \in 0..MaxBars :
        \E c \in [1..n -> Prices], v \in [1..n -> Volumes] :
            Ready("obv", ObvArgs(c, v))
ObvExampleCall == Ready("obv", ObvArgs(ExampleObvClose, ExampleObvVolume))

SeriesPeriodCalls ==
    \/ PeriodCalls("roc")
    \/ PeriodCalls("sma")
    \/ PeriodCalls("ema")
    \/ PeriodCalls("rsi")
    \/ BollingerCalls
BarPeriodCalls(bars) ==
    \/ BarCalls("stochastic", bars)
    \/ BarCalls("atr", bars)
    \/ WilliamsCalls(bars)
    \/ BarCalls("cci", bars)

(***************************************************************************)
(* The state machine: a caller has an indicator and its arguments ready    *)
(* (pc = "call"); the call returns its series or raises (pc = "done").     *)
(* The indicators are static functions of their arguments: a call reads    *)
(* op and args and writes outcome and out.                                 *)
(***************************************************************************)
Return(r) ==
    /\ pc' = "done"
    /\ outcome' = r.outcome
    /\ out' = r.out
    /\ UNCHANGED <<op, args>>

CallSma ==
    /\ pc = "call" /\ op = "sma"
    /\ Return(sma(args.data, args.period))

CallEma ==
    /\ pc = "call" /\ op = "ema"
    /\ Return(ema(args.data, args.period))

CallRsi ==
    /\ pc = "call" /\ op = "rsi"
    /\ Return(rsi(args.data, args.period))

CallMacd ==
    /\ pc = "call" /\ op = "macd"
    /\ Return(macd(args.data, args.fast, args.slow, args.signal))

CallBollingerBands ==
    /\ pc = "call" /\ op = "bollinger_bands"
    /\ Return(bollinger_bands(args.data, args.period, args.std_dev))

CallStochastic ==
    /\ pc = "call" /\ op = "stochastic"
    /\ Return(stochastic(args.high, args.low, args.close, args.period))

CallAtr ==
    /\ pc = "call" /\ op = "atr"
    /\ Return(atr(args.high, args.low, args.close, args.period))

CallObv ==
    /\ pc = "call" /\ op = "obv"
    /\ Return(obv(args.close, args.volume))

CallRoc ==
    /\ pc = "call" /\ op = "roc"
    /\ Return(roc(args.data, args.period))

CallApo ==
    /\ pc = "call" /\ op = "apo"
    /\ Return(apo(args.data, args.fast, args.slow))

CallVwap ==
    /\ pc = "call" /\ op = "vwap"
    /\ Return(vwap(args.high, args.low, args.close, args.volume))

CallWilliamsR ==
    /\ pc = "call" /\ op = "williams_r"
    /\ Return(williams_r(args.high, args.low, args.close, args.period))

CallCci ==
    /\ pc = "call" /\ op = "cci"
    /\ Return(cci(args.high, args.low, args.close, args.period))

\* Every indicator, on series of any lengths.
Init ==
    \/ ObvRaggedCalls
    \/ ObvExampleCall
    \/ SeriesPeriodCalls
    \/ MacdCalls
    \/ ApoCalls
    \/ BarPeriodCalls(RaggedBars)
    \/ VwapCalls

Next ==
    \/ CallSma
    \/ CallEma
    \/ CallRsi
    \/ CallMacd
    \/ CallBollingerBands
    \/ CallStochastic
    \/ CallAtr
    \/ CallObv
    \/ CallRoc
    \/ CallApo
    \/ CallVwap
    \/ CallWilliamsR
    \/ CallCci

Spec == Init /\ [][Next]_vars

\* williams_r on bars of one length, whole prices and prices in between.
InitWilliams == WilliamsCalls(AlignedBars) \/ FineCalls
NextWilliams == CallWilliamsR
SpecWilliams == InitWilliams /\ [][NextWilliams]_vars

\* The indicators that take a period, on series of one length.
InitPeriod == SeriesPeriodCalls \/ BarPeriodCalls(AlignedBars)

NextPeriod ==
    \/ CallSma
    \/ CallEma
    \/ CallRsi
    \/ CallBollingerBands
    \/ CallStochastic
    \/ CallAtr
    \/ CallRoc
    \/ CallWilliamsR
    \/ CallCci

SpecPeriod == InitPeriod /\ [][NextPeriod]_vars

\* The indicators of one series.
InitSeries == SeriesPeriodCalls \/ MacdCalls \/ ApoCalls

NextSeries ==
    \/ CallSma
    \/ CallEma
    \/ CallRsi
    \/ CallMacd
    \/ CallBollingerBands
    \/ CallRoc
    \/ CallApo

SpecSeries == InitSeries /\ [][NextSeries]_vars

\* On-balance volume, on close and volume series of one length.
InitObv == ObvAlignedCalls \/ ObvExampleCall

NextObv == CallObv

SpecObv == InitObv /\ [][NextObv]_vars

(***************************************************************************)
(* What the claims speak of.                                               *)
(***************************************************************************)
Done == pc = "done"

SeriesOps == {"sma", "ema", "rsi", "macd", "bollinger_bands", "roc", "apo"}
BarOps == {"stochastic", "atr", "williams_r", "cci"}
PeriodOps ==
    {"sma", "ema", "rsi", "bollinger_bands", "stochastic", "atr", "roc",
     "williams_r", "cci"}
RollingOps ==
    {"sma", "rsi", "bollinger_bands", "stochastic", "atr", "williams_r", "cci"}

\* The series the called indicator takes.
Inputs ==
    IF op \in SeriesOps THEN <<args.data>>
    ELSE IF op \in BarOps THEN <<args.high, args.low, args.close>>
    ELSE IF op = "vwap" THEN <<args.high, args.low, args.close, args.volume>>
    ELSE <<args.close, args.volume>>

SameLength == \A i, j \in 1..Len(Inputs) : Len(Inputs[i]) = Len(Inputs[j])
AnyEmpty == \E i \in 1..Len(Inputs) : Len(Inputs[i]) = 0
InputLen == Len(Inputs[1])
WellShaped == SameLength /\ InputLen >= 1

\* The periods and spans the called indicator takes.
Params ==
    IF op \in PeriodOps THEN {args.period}
    ELSE IF op = "macd" THEN {args.fast, args.slow, args.signal}
    ELSE IF op = "apo" THEN {args.fast, args.slow}
    ELSE {}
ValidParams == \A x \in Params : x >= 1

AllNaN(series) == \A i \in 1..Len(series) : IsNaN(series[i])

IsFiniteScalar(x) ==
    \/ x.k \in {"num", "cci", "f64"}
    \/ x.k = "eps" /\ ~(x.v.c.n = 0 /\ x.v.e.n = 0)
IsFinite(x) ==
    \/ IsFiniteScalar(x)
    \/ x.k = "mean" /\ \A j \in 1..Len(x.v) : IsFiniteScalar(x.v[j])

(***************************************************************************)
(* C1.  Every indicator, called with non-empty series of one length n and  *)
(* periods >= 1, returns series of length exactly n.                       *)
(* The code does not: rsi returns the n-1 values of the first differences. *)
(***************************************************************************)
C1_LengthPreserved ==
    (Done /\ WellShaped /\ ValidParams) =>
        /\ outcome = "ok"
        /\ \A j \in 1..Len(out) : Len(out[j]) = InputLen

(***************************************************************************)
(* C2.  A call with series of different lengths, or with an empty series,  *)
(* ends in an error and returns no series.                                 *)
(* The code validates nothing: sma of an empty series returns an empty     *)
(* series, numpy stretches a length-1 series, obv ignores surplus volume.  *)
(***************************************************************************)
C2_BadShapeRaises ==
    (Done /\ (~SameLength \/ AnyEmpty)) => outcome # "ok"

(***************************************************************************)
(* C3.  A call with a period or span <= 0 ends in an error and returns no  *)
(* series.                                                                 *)
(* The code does not for period 0: roc returns zeros (or nan) and the      *)
(* rolling indicators return all-nan series.                               *)
(***************************************************************************)
C3_NonPositiveParamRaises ==
    (Done /\ \E x \in Params : x <= 0) => outcome # "ok"

(***************************************************************************)
(* C4.  On well-shaped input with valid periods, every output position     *)
(* with enough history is a finite number, for rsi, stochastic,            *)
(* williams_r, cci (full-window indices), roc (indices >= period) and vwap *)
(* (every index).                                                          *)
(* The code does not guard vwap or roc: a cumulative volume of 0 and a     *)
(* base price of 0 give nan or infinity.                                   *)
(***************************************************************************)
EnoughHistory(j, i) ==
    IF op = "vwap" THEN TRUE
    ELSE IF op = "stochastic" /\ j = 2 THEN i >= args.period + DWindow - 1
    ELSE IF op = "roc" THEN i > args.period
    ELSE i >= args.period

C4_DegeneracyIsFinite ==
    (/\ Done /\ WellShaped /\ ValidParams /\ outcome = "ok"
     /\ op \in {"rsi", "stochastic", "williams_r", "cci", "roc", "vwap"}) =>
        \A j \in 1..Len(out) : \A i \in 1..Len(out[j]) :
            EnoughHistory(j, i) => IsFinite(out[j][i])

(***************************************************************************)
(* C5, as claimed.  For every indicator with a period and every non-empty  *)
(* series of length n, a period larger than n yields output undefined at   *)
(* every index and does not fail.                                          *)
(***************************************************************************)
C5_AsClaimed ==
    (Done /\ op \in PeriodOps /\ WellShaped /\ args.period > InputLen) =>
        /\ outcome = "ok"
        /\ \A j \in 1..Len(out) : AllNaN(out[j])

(***************************************************************************)
(* C5, amended.  For the indicators built on rolling windows (sma, rsi,    *)
(* bollinger_bands, stochastic, atr, williams_r, cci) and every non-empty  *)
(* series of length n, a period larger than n yields output undefined at   *)
(* every index and does not fail.  ema with such a period does not fail    *)
(* and is a number at every index; roc does not fail and is 0 at every     *)
(* index.                                                                  *)
(***************************************************************************)
C5_PeriodBeyondLength ==
    (Done /\ op \in PeriodOps /\ WellShaped /\ args.period > InputLen) =>
        /\ outcome = "ok"
        /\ op \in RollingOps => \A j \in 1..Len(out) : AllNaN(out[j])
        /\ op = "ema" =>
              /\ Len(out[1]) = InputLen
              /\ \A i \in 1..InputLen : IsNum(out[1][i])
        /\ op = "roc" =>
              /\ Len(out[1]) = InputLen
              /\ \A i \in 1..InputLen : out[1][i] = Num(R(0))

C5_Witness ==
    /\ Done /\ op = "atr" /\ WellShaped
    /\ InputLen >= 2 /\ args.period > InputLen
    /\ outcome = "ok" /\ Len(out[1]) = InputLen

(***************************************************************************)
(* Sums over the raw integer samples, for stating what a window holds.     *)
(***************************************************************************)
RECURSIVE IntSum(_, _, _)
IntSum(data, lo, hi) ==
    IF lo > hi THEN 0 ELSE data[lo] + IntSum(data, lo + 1, hi)

RECURSIVE IntSumSq(_, _, _)
IntSumSq(data, lo, hi) ==
    IF lo > hi THEN 0 ELSE data[lo] * data[lo] + IntSumSq(data, lo + 1, hi)

\* series[i] is nan before the first full window and from then on the mean
\* of the period samples data[i-period+1..i].
IsWindowMean(series, data, period) ==
    /\ Len(series) = Len(data)
    /\ \A i \in 1..Len(data) :
          IF i < period THEN IsNaN(series[i])
          ELSE /\ IsNum(series[i])
               /\ series[i].v.n * period
                    = IntSum(data, i - period + 1, i) * series[i].v.d

(***************************************************************************)
(* C6.  For a series s of length n and a period p >= 1, sma(s, p) has      *)
(* length n, is undefined at every index before the first full window and  *)
(* is the arithmetic mean of the trailing p samples from there on;         *)
(* close = [10,11,12,11,10], p = 3 gives [nan, nan, 11, 34/3, 11].         *)
(***************************************************************************)
C6_SmaIsWindowMean ==
    (Done /\ op = "sma" /\ args.period >= 1) =>
        /\ outcome = "ok"
        /\ Len(out) = 1
        /\ IsWindowMean(out[1], args.data, args.period)
        /\ (args.data = ExampleClose /\ args.period = 3) =>
              out[1] = <<NaN, NaN, Num(R(11)), Num([n |-> 34, d |-> 3]),
                         Num(R(11))>>

C6_Witness ==
    /\ Done /\ op = "sma" /\ outcome = "ok"
    /\ args.data = ExampleClose /\ args.period = 3
    /\ IsNum(out[1][4])

(***************************************************************************)
(* C7.  For a non-empty series s and a period p >= 1, ema(s, p) is a       *)
(* number at every index, ema[0] = s[0], and for every later index         *)
(* ema[i] = a*s[i] + (1-a)*ema[i-1] with a = 2/(p+1), that is              *)
(* (p+1)*ema[i] = 2*s[i] + (p-1)*ema[i-1].                                 *)
(***************************************************************************)
C7_EmaRecurrence ==
    (Done /\ op = "ema" /\ args.period >= 1 /\ Len(args.data) >= 1) =>
        /\ outcome = "ok"
        /\ Len(out) = 1
        /\ Len(out[1]) = Len(args.data)
        /\ \A i \in 1..Len(args.data) : IsNum(out[1][i])
        /\ out[1][1] = Num(R(args.data[1]))
        /\ \A i \in 2..Len(args.data) :
              RMul(R(args.period + 1), out[1][i].v)
                = RAdd(R(2 * args.data[i]),
                       RMul(R(args.period - 1), out[1][i - 1].v))

C7_Witness ==
    /\ Done /\ op = "ema" /\ outcome = "ok"
    /\ args.period = 3 /\ Len(args.data) >= 3
    /\ args.data[1] # args.data[2]
    /\ out[1][2] # out[1][1]

(***************************************************************************)
(* C8.  For spans >= 1, macd(s, fast, slow, signal) returns three series   *)
(* of the input length, numbers at every index, with                       *)
(* MACD line = ema(s, fast) - ema(s, slow), signal line = the exponential  *)
(* mean of the MACD line with span signal, histogram = MACD line - signal  *)
(* line; all three are 0 at index 0.                                       *)
(***************************************************************************)
C8_MacdLines ==
    (Done /\ op = "macd" /\ args.fast >= 1 /\ args.slow >= 1
          /\ args.signal >= 1) =>
        LET n == Len(args.data)
            ema_fast == ema(args.data, args.fast).out[1]
            ema_slow == ema(args.data, args.slow).out[1]
        IN  /\ outcome = "ok"
            /\ Len(out) = 3
            /\ \A j \in 1..3 :
                  /\ Len(out[j]) = n
                  /\ \A i \in 1..n : IsNum(out[j][i])
            /\ \A i \in 1..n :
                  /\ out[1][i].v = RSub(ema_fast[i].v, ema_slow[i].v)
                  /\ out[3][i].v = RSub(out[1][i].v, out[2][i].v)
            /\ n >= 1 => \A j \in 1..3 : out[j][1] = Num(R(0))
            /\ \A i \in 2..n :
                  RMul(R(args.signal + 1), out[2][i].v)
                    = RAdd(RMul(R(2), out[1][i].v),
                           RMul(R(args.signal - 1), out[2][i - 1].v))

C8_Witness ==
    /\ Done /\ op = "macd" /\ outcome = "ok"
    /\ args.fast = 2 /\ args.slow = 3 /\ args.signal = 2
    /\ Len(args.data) >= 3
    /\ out[3][3] # Num(R(0))

(***************************************************************************)
(* C9.  For non-empty close and volume of one length, obv[0] = volume[0]   *)
(* and every later step obv[i] - obv[i-1] is +volume[i] if close rose,     *)
(* -volume[i] if it fell and 0 if it stayed; close = [1,2,3,4,5] with      *)
(* volume 100 each gives [100,200,300,400,500].                            *)
(***************************************************************************)
C9_ObvSteps ==
    (Done /\ op = "obv" /\ WellShaped) =>
        /\ outcome = "ok"
        /\ Len(out) = 1
        /\ Len(out[1]) = Len(args.close)
        /\ out[1][1] = Num(R(args.volume[1]))
        /\ \A i \in 2..Len(args.close) :
              /\ IsNum(out[1][i])
              /\ RSub(out[1][i].v, out[1][i - 1].v)
                   = R(IF args.close[i] > args.close[i - 1]
                         THEN args.volume[i]
                       ELSE IF args.close[i] < args.close[i - 1]
                         THEN -args.volume[i]
                       ELSE 0)
        /\ (args.close = ExampleObvClose /\ args.volume = ExampleObvVolume) =>
              out[1] = [i \in 1..5 |-> Num(R(100 * i))]

C9_Witness ==
    /\ Done /\ op = "obv" /\ outcome = "ok"
    /\ args.close = ExampleObvClose /\ args.volume = ExampleObvVolume
    /\ out[1][5] = Num(R(500))

(***************************************************************************)
(* C10.  For a series, a period p >= 1 and a multiplier k,                 *)
(* bollinger_bands returns (upper, middle, lower): middle is the rolling   *)
(* mean, the bands are defined at the same indices, and where they are     *)
(* upper = middle + k*sd and lower = middle - k*sd for the rolling sample  *)
(* standard deviation sd (sd^2 * p * (p-1) = p * sum x^2 - (sum x)^2 over  *)
(* the window), so that upper - lower = 2*k*sd and                         *)
(* upper - middle = middle - lower.                                        *)
(***************************************************************************)
C10_BollingerBands ==
    (Done /\ op = "bollinger_bands" /\ args.period >= 1) =>
        LET p == args.period
            k == args.std_dev
        IN  /\ outcome = "ok"
            /\ Len(out) = 3
            /\ IsWindowMean(out[2], args.data, p)
            /\ Len(out[1]) = Len(args.data)
            /\ Len(out[3]) = Len(args.data)
            /\ \A i \in 1..Len(args.data) :
                  /\ IsNaN(out[1][i]) <=> IsNaN(out[3][i])
                  /\ ~IsNaN(out[1][i]) =>
                        LET u == out[1][i].v
                            l == out[3][i].v
                            sx == IntSum(args.data, i - p + 1, i)
                            sxx == IntSumSq(args.data, i - p + 1, i)
                        IN  /\ out[1][i].k = "surd" /\ out[3][i].k = "surd"
                            /\ IsNum(out[2][i])
                            /\ u.a = out[2][i].v /\ l.a = out[2][i].v
                            /\ u.r = l.r
                            /\ u.r.n * p * (p - 1)
                                 = (p * sxx - sx * sx) * u.r.d
                            /\ RSub(u.b, l.b) = R(2 * k)
                            /\ u.b = RNeg(l.b)

C10_Witness ==
    /\ Done /\ op = "bollinger_bands" /\ outcome = "ok"
    /\ args.period = 2 /\ args.std_dev = 2 /\ Len(args.data) >= 3
    /\ out[1][3].k = "surd"
    /\ out[1][3].v.r.n # 0

(***************************************************************************)
(* Order on the values a + b*EPS: EPS is positive and smaller than every   *)
(* positive rational of the model.                                         *)
(***************************************************************************)
EpsNonNeg(a, b) == a.n > 0 \/ (a.n = 0 /\ b.n >= 0)
EpsPos(a, b) == a.n > 0 \/ (a.n = 0 /\ b.n > 0)

\* lo <= x <= hi for an eps value x with a positive denominator and
\* integers lo and hi.
EpsBetween(x, lo, hi) ==
    /\ x.k = "eps"
    /\ EpsPos(x.v.c, x.v.e)
    /\ EpsNonNeg(RSub(x.v.a, RMul(R(lo), x.v.c)),
                 RSub(x.v.b, RMul(R(lo), x.v.e)))
    /\ EpsNonNeg(RSub(RMul(R(hi), x.v.c), x.v.a),
                 RSub(RMul(R(hi), x.v.e), x.v.b))

StrictlyIncreasing(data) == \A i \in 2..Len(data) : data[i - 1] < data[i]

(***************************************************************************)
(* C11.  For a period p >= 1, rsi is undefined at every output index       *)
(* before the first full window of differences and lies in [0, 100] at     *)
(* every index from there on.  On a strictly increasing series the average *)
(* loss is 0 and the average gain is G = (s[i+1] - s[i+1-p]) / p, so the   *)
(* value is 100 - 100/(1 + G/1e-10) = 100*G / (G + 1e-10): below 100, and  *)
(* nearer to 100 than 100 * 1e-10 / G.                                     *)
(***************************************************************************)
C11_RsiRange ==
    (Done /\ op = "rsi" /\ args.period >= 1) =>
        LET p == args.period
            n == Len(args.data)
        IN  /\ outcome = "ok"
            /\ Len(out) = 1
            /\ \A i \in 1..Len(out[1]) :
                  IF i < p THEN IsNaN(out[1][i])
                  ELSE /\ EpsBetween(out[1][i], 0, 100)
                       /\ StrictlyIncreasing(args.data) =>
                             LET G == Rat(args.data[i + 1] - args.data[i + 1 - p], p)
                             IN  /\ out[1][i] = Eps(RMul(R(100), G), R(0), G, R(1))
                                 /\ G.n > 0

C11_Witness ==
    /\ Done /\ op = "rsi" /\ outcome = "ok"
    /\ args.period = 2 /\ Len(args.data) = 3
    /\ StrictlyIncreasing(args.data)
    /\ out[1][2] = Eps(R(100), R(0), R(1), R(1))


\* low[j] <= close[j] <= high[j] at every bar j.
OrderedBars ==
    /\ SameLength
    /\ \A j \in 1..Len(args.close) :
          args.low[j] <= args.close[j] /\ args.close[j] <= args.high[j]

\* Prices [w, f] in order, and the largest and smallest of data[lo..hi].
PriceLeq(a, b) == a.w < b.w \/ (a.w = b.w /\ a.f <= b.f)

RECURSIVE PriceMax(_, _, _)
PriceMax(data, lo, hi) ==
    IF lo = hi THEN data[lo]
    ELSE LET m == PriceMax(data, lo + 1, hi)
         IN  IF PriceLeq(m, data[lo]) THEN data[lo] ELSE m

RECURSIVE PriceMin(_, _, _)
PriceMin(data, lo, hi) ==
    IF lo = hi THEN data[lo]
    ELSE LET m == PriceMin(data, lo + 1, hi)
         IN  IF PriceLeq(data[lo], m) THEN data[lo] ELSE m

\* low[j] <= close[j] <= high[j] at every bar j of prices [w, f].
OrderedPrices ==
    /\ SameLength
    /\ \A j \in 1..Len(args.close) :
          /\ PriceLeq(args.low[j], args.close[j])
          /\ PriceLeq(args.close[j], args.high[j])

\* The whole number n as a double, and lo <= x <= hi for a double x.
Whole64(n) == Round64(IF n < 0 THEN -1 ELSE 1, BigOfNat(Abs(n)), 0)
Within64(x, lo, hi) ==
    /\ x.k = "f64"
    /\ ~F64Less(x, Whole64(lo))
    /\ ~F64Less(Whole64(hi), x)

\* What the claimed expression gives for the bars of the call at index i,
\* HH the highest high and LL the lowest low of the trailing p bars.
WilliamsExpression(i, p) ==
    LET HH == Price64(PriceMax(args.high, i - p + 1, i))
        LL == Price64(PriceMin(args.low, i - p + 1, i))
    IN  F64Div(F64Times(-100, F64Sub(HH, Price64(args.close[i]))),
               F64Add(F64Sub(HH, LL), Eps64))

(***************************************************************************)
(* C13.  For bars of one length with low <= close <= high and a period     *)
(* p >= 1, williams_r is undefined at every index before the first full    *)
(* window and from there on equals                                         *)
(* -100 * (HH - close[i]) / (HH - LL + 1e-10), HH the highest high and LL  *)
(* the lowest low of the trailing p bars, and lies in [-100, 0].           *)
(* The code does not stay in the range: where HH - LL absorbs the 1e-10    *)
(* and the close is on the lowest low, the rounded product divided by the  *)
(* rounded sum can be the double just below -100.                          *)
(***************************************************************************)
C13_WilliamsRange ==
    (Done /\ op = "williams_r" /\ args.period >= 1 /\ OrderedPrices) =>
        LET p == args.period
        IN  /\ outcome = "ok"
            /\ Len(out) = 1
            /\ Len(out[1]) = Len(args.close)
            /\ \A i \in 1..Len(args.close) :
                  IF i < p THEN IsNaN(out[1][i])
                  ELSE /\ out[1][i] = WilliamsExpression(i, p)
                       /\ Within64(out[1][i], -100, 0)

(***************************************************************************)
(* C14.  For series of one length n and a period p > n (n = 0 included),   *)
(* the rolling mean, standard deviation, minimum and maximum with window p *)
(* are undefined at each of the n indices, and so is every series that     *)
(* sma, bollinger_bands, stochastic, atr, williams_r and cci return; the   *)
(* call raises nothing.                                                    *)
(***************************************************************************)
WindowOps ==
    {"sma", "bollinger_bands", "stochastic", "atr", "williams_r", "cci"}

C14_ShortSeriesUndefined ==
    (Done /\ op \in WindowOps /\ SameLength /\ InputLen < args.period) =>
        /\ outcome = "ok"
        /\ Len(out) >= 1
        /\ \A j \in 1..Len(out) :
              /\ Len(out[j]) = InputLen
              /\ AllNaN(out[j])
        /\ \A k \in 1..Len(Inputs) :
              LET s == Arr(Inputs[k])
                  stats == <<RollingMean(s, args.period),
                             RollingStd(s, args.period),
                             RollingMin(s, args.period),
                             RollingMax(s, args.period)>>
              IN  \A j \in 1..4 :
                      Len(stats[j]) = InputLen /\ AllNaN(stats[j])

C14_Witness ==
    /\ Done /\ op = "stochastic" /\ SameLength
    /\ InputLen = 3 /\ args.period = 4
    /\ args.high[3] > args.low[3]
    /\ outcome = "ok" /\ Len(out) = 2
    /\ Len(out[1]) = 3 /\ IsNaN(out[1][3])
    /\ Len(out[2]) = 3 /\ IsNaN(out[2][3])

(***************************************************************************)
(* The rolling standard deviation of bollinger_bands (over data) and of    *)
(* cci (over the typical price (high + low + close) / 3), and what the     *)
(* returned series show of it.                                             *)
(***************************************************************************)
StdOps == {"bollinger_bands", "cci"}

\* Sample i of the deviation's series, times StdScale.
StdSample(i) ==
    IF op = "bollinger_bands" THEN args.data[i]
    ELSE args.high[i] + args.low[i] + args.close[i]
StdScale == IF op = "bollinger_bands" THEN 1 ELSE 3

StdSeries ==
    RollingStd([i \in 1..InputLen |-> Rat(StdSample(i), StdScale)], args.period)

RECURSIVE StdSum(_, _)
StdSum(lo, hi) == IF lo > hi THEN 0 ELSE StdSample(lo) + StdSum(lo + 1, hi)

RECURSIVE StdSumSq(_, _)
StdSumSq(lo, hi) ==
    IF lo > hi THEN 0 ELSE StdSample(lo) * StdSample(lo) + StdSumSq(lo + 1, hi)

\* r is the sample variance of the p samples ending at i:
\* r * p * (p - 1) = p * sum x^2 - (sum x)^2.
IsSampleVar(r, i, p) ==
    r.n * StdScale * StdScale * p * (p - 1)
      = (p * StdSumSq(i - p + 1, i) - StdSum(i - p + 1, i) * StdSum(i - p + 1, i))
          * r.d

\* The deviation is undefined at exactly the indices in the set undefined,
\* as computed and as the returned series show it, and elsewhere it is the
\* sample standard deviation of the trailing window.
StdDefinedOutside(undefined) ==
    LET std == StdSeries
    IN  /\ outcome = "ok"
        /\ Len(out[1]) = InputLen
        /\ \A i \in 1..InputLen :
              /\ IsNaN(std[i]) <=> i \in undefined
              /\ IsNaN(out[1][i]) <=> i \in undefined
              /\ i \notin undefined =>
                    /\ std[i].k = "sqrt"
                    /\ IsSampleVar(std[i].v, i, args.period)
                    /\ out[1][i].k = (IF op = "cci" THEN "cci" ELSE "surd")
                    /\ out[1][i].v.r = std[i].v

(***************************************************************************)
(* C15, as claimed.  For bollinger_bands and cci on series of one length   *)
(* and every period p >= 1, p = 1 included, the rolling standard deviation *)
(* is undefined at exactly the indices where the rolling mean is, those    *)
(* before the first full window, and is the sample standard deviation of   *)
(* the trailing p samples elsewhere.                                       *)
(***************************************************************************)
C15_AsClaimed ==
    (Done /\ op \in StdOps /\ SameLength /\ args.period >= 1) =>
        StdDefinedOutside(1..(args.period - 1))

(***************************************************************************)
(* C15, amended.  For bollinger_bands and cci on series of one length and  *)
(* a period p >= 2, the rolling standard deviation is undefined at exactly *)
(* the indices before the first full window, as the rolling mean is, and   *)
(* is the sample standard deviation of the trailing p samples elsewhere.   *)
(* For p = 1 it is undefined at every index, where the rolling mean is     *)
(* defined at every index: one sample has no sample deviation.             *)
(***************************************************************************)
C15_SampleStd ==
    (Done /\ op \in StdOps /\ SameLength /\ args.period >= 1) =>
        /\ StdDefinedOutside(IF args.period = 1 THEN 1..InputLen
                             ELSE 1..(args.period - 1))
        /\ (op = "bollinger_bands" /\ args.period = 1) =>
              \A i \in 1..InputLen : out[2][i] = Num(R(args.data[i]))

C15_Witness ==
    /\ Done /\ op = "cci" /\ SameLength /\ outcome = "ok"
    /\ args.period = 2 /\ InputLen >= 3
    /\ out[1][3].k = "cci"
    /\ out[1][3].v.r = [n |-> 1, d |-> 2]

(***************************************************************************)
(* The true range of bar i of the call's bars against a previous close,    *)
(* and the previous close np.roll pairs with it.                           *)
(***************************************************************************)
TrueRangeAgainst(i, prevClose) ==
    LET a == args.high[i] - args.low[i]
        b == Abs(args.high[i] - prevClose)
        c == Abs(args.low[i] - prevClose)
        m == IF b > c THEN b ELSE c
    IN  IF a > m THEN a ELSE m

PrevClose(i) == IF i = 1 THEN args.close[Len(args.close)] ELSE args.close[i - 1]

RECURSIVE TrueRangeSum(_, _)
TrueRangeSum(lo, hi) ==
    IF lo > hi THEN 0
    ELSE TrueRangeAgainst(lo, PrevClose(lo)) + TrueRangeSum(lo + 1, hi)

\* The same call on the bars without the last one.
AtrOfEarlierBars ==
    atr(SubSeq(args.high, 1, InputLen - 1), SubSeq(args.low, 1, InputLen - 1),
        SubSeq(args.close, 1, InputLen - 1), args.period)

(***************************************************************************)
(* C16.  For n >= 1 bars of one length and a period p >= 1, atr is         *)
(* undefined before the first full window and from there on the mean of    *)
(* the true ranges tr[i-p+1..i], where                                     *)
(* tr[i] = max(high[i]-low[i], |high[i]-prev[i]|, |low[i]-prev[i]|),       *)
(* prev[i] = close[i-1] for i >= 1 and prev[0] = close[n-1].  So against   *)
(* the same call without the last bar, atr[p-1] (the one window holding    *)
(* index 0) moves by (tr[0] against close[n-1] - tr[0] against             *)
(* close[n-2]) / p and every later value is the same.                      *)
(***************************************************************************)
C16_AtrWrapAround ==
    (Done /\ op = "atr" /\ SameLength /\ InputLen >= 1 /\ args.period >= 1) =>
        LET p == args.period
            n == InputLen
            earlier == AtrOfEarlierBars.out[1]
        IN  /\ outcome = "ok"
            /\ Len(out) = 1
            /\ Len(out[1]) = n
            /\ \A i \in 1..n :
                  IF i < p THEN IsNaN(out[1][i])
                  ELSE /\ IsNum(out[1][i])
                       /\ out[1][i].v.n * p
                            = TrueRangeSum(i - p + 1, i) * out[1][i].v.d
            /\ \A i \in p..(n - 1) :
                  RSub(out[1][i].v, earlier[i].v)
                    = IF i = p
                      THEN Rat(TrueRangeAgainst(1, args.close[n])
                                 - TrueRangeAgainst(1, args.close[n - 1]), p)
                      ELSE R(0)

C16_Witness ==
    /\ Done /\ op = "atr" /\ SameLength /\ outcome = "ok"
    /\ args.period = 2 /\ InputLen = 3
    /\ IsNum(out[1][2])
    /\ OrderedBars
    /\ out[1][2] # AtrOfEarlierBars.out[1][2]

=============================================================================
